---- MODULE Spec2Model ----
(***************************************************************************)
(* Static collection of the suite/test tree of a test file, as done by     *)
(* collectTests in packages/vitest/src/typecheck/collect.ts: the walk over *)
(* the call expressions of the parsed file (the classifier), the sort of   *)
(* the recorded definitions and the fold that materializes them as nested  *)
(* suite and test tasks.                                                   *)
(***************************************************************************)
EXTENDS Integers, Sequences, FiniteSets, TLC

VARIABLES
    ast,          \* the parsed file: [start, end, calls], calls in walk order
    pc,           \* position of collectTests, from "start" to "returned"
    visited,      \* number of call expressions the walker has handled
    definitions,  \* the LocalCallDefinition list
    heap,         \* task objects by identity; FileId is the file (root) task
    lastSuite,    \* identity of the suite the cursor is on
    built,        \* number of definitions the forEach has handled
    request,      \* the transform result the collection holds: a request object
    objects,      \* the transform: the code of each file and the request objects
                  \* it has handed out, by identity
    call,         \* the running call of collectTests: its identity and filepath
    called,       \* the external operations the collection has called, in order
    final,        \* what the finalizer operations and the return have produced
    other,        \* the locals of the collection that is suspended, if there is one
    template,     \* a name argument and the string resolved for it
    hashed        \* the strings two collections pass to generateHash

\* the locals of the running collection
locals == <<ast, pc, visited, definitions, heap, lastSuite, built, request, called, final>>
\* the variables the walk and the tree builder leave alone
rest == <<request, objects, call, called, final, other, template, hashed>>
vars == <<ast, pc, visited, definitions, heap, lastSuite, built,
          request, objects, call, called, final, other, template, hashed>>

\* ---------------------------------------------------------------- bounds
\* Largest number of call expressions in a file of the nesting family.
MaxCalls == 3
\* Largest number of statements in a file of the callee-shape family.
MaxStatements == 2

\* ------------------------------------------------------------- AST nodes
\* A string the code sees as undefined or null (both are falsy, as is "").
Undefined == ""
\* The task field of a definition before the forEach sets it (null as any).
NullTask == -1
\* Identity of the file task.
FileId == 0
\* The suite field of the file task (never set: undefined).
NoSuite == -1

Ident(n) == [type |-> "Identifier", name |-> n]
Member(o, p) == [type |-> "MemberExpression", object |-> o, property |-> Ident(p)]
Tagged(t) == [type |-> "TaggedTemplateExpression", tag |-> t]
CallOf(c) == [type |-> "CallExpression", callee |-> c]
FunctionExpr == [type |-> "FunctionExpression"]

\* The namespace object the module transform binds an import to.
Ns == "__vite_ssr_import_0__"

\* name.startsWith('__vite_ssr_')
StartsWithViteSsr(name) ==
    name \in {"__vite_ssr_import_0__", "__vite_ssr_exports_0__"}

\* obj?.name and obj?.property of an expression node
NameOf(e) == IF "name" \in DOMAIN e THEN e.name ELSE Undefined
HasProperty(e) == "property" \in DOMAIN e

\* ------------------------------------------------------------ classifier
RECURSIVE getName(_)
getName(callee) ==
    IF callee.type = "Identifier" THEN callee.name
    ELSE IF callee.type = "CallExpression" THEN getName(callee.callee)
    ELSE IF callee.type = "TaggedTemplateExpression" THEN getName(callee.tag)
    ELSE IF callee.type = "MemberExpression"
         THEN IF StartsWithViteSsr(NameOf(callee.object))
              THEN getName(callee.property)
              ELSE IF HasProperty(callee.object)
                   THEN getName(callee.object.property)
                   ELSE Undefined
    ELSE Undefined

Keywords == {"it", "test", "describe", "suite"}

\* callee?.property?.name
PropertyName(callee) ==
    IF HasProperty(callee) THEN NameOf(callee.property) ELSE Undefined

\* const mode = !property || property === name ? 'run' : property
DeclaredMode(callee, name) ==
    LET property == PropertyName(callee)
    IN  IF property = Undefined \/ property = name THEN "run" ELSE property

\* the modes that make the visitor return without recording anything
IsModifierMode(mode) == mode \in {"each", "skipIf", "runIf", "for"}

\* the start offset recorded for the call
StartIsNodeStartMutant(node) == node.start
StartOf(node) ==
    IF node.callee.type = "CallExpression" THEN node.callee.end
    ELSE IF node.callee.type = "TaggedTemplateExpression" THEN node.callee.end + 1
    ELSE node.start

\* arguments: [messageNode];  !messageNode
NoMessageNodeMutant(node) == FALSE
NoMessageNode(node) == node.arguments = <<>>

\* A text is a sequence of characters; this one stands for the character
\* U+0060, which opens and closes a template literal.
Backtick == "U+0060"

\* code.slice(start, end) of a text
Slice(code, start, end) == SubSeq(code, start + 1, end)

\* The name of an argument node.  The value of a Literal node is kept as the
\* string String(node.value) gives.
RECURSIVE getNodeAsString(_, _), mergeTemplateLiteral(_, _)
getNodeAsString(node, code) ==
    IF node.type = "Literal" THEN node.value
    ELSE IF node.type = "Identifier" THEN node.name
    ELSE IF node.type = "TemplateLiteral" THEN mergeTemplateLiteral(node, code)
    ELSE Slice(code, node.start, node.end)

\* expression.type === 'Literal' ? expression.raw : getNodeAsString(expression, code)
ExpressionValueMutant(expression, code) == getNodeAsString(expression, code)
ExpressionString(expression, code) ==
    IF expression.type = "Literal" THEN expression.raw
    ELSE getNodeAsString(expression, code)

\* the rounds of the loop of mergeTemplateLiteral from quasisIndex on
RECURSIVE MergeFrom(_, _, _)
MergeFrom(node, code, quasisIndex) ==
    IF quasisIndex > Len(node.quasis) THEN <<>>
    ELSE node.quasis[quasisIndex].value.raw
         \o (IF quasisIndex \in DOMAIN node.expressions
             THEN LET expression == node.expressions[quasisIndex]
                      string     == ExpressionString(expression, code)
                  IN  IF expression.type = "TemplateLiteral"
                      THEN <<"$", "{", Backtick>> \o string \o <<Backtick, "}">>
                      ELSE <<"$", "{">> \o string \o <<"}">>
             ELSE <<>>)
         \o MergeFrom(node, code, quasisIndex + 1)

mergeTemplateLiteral(node, code) == MergeFrom(node, code, 1)

TypeOf(name) == IF name \in {"it", "test"} THEN "test" ELSE "suite"

\* TRUE when the visitor records a definition for the call expression
Classified(node) ==
    LET name == getName(node.callee)
    IN  /\ name # Undefined
        /\ name \in Keywords
        /\ ~IsModifierMode(DeclaredMode(node.callee, name))
        /\ ~NoMessageNode(node)

DefinitionOf(node, code) ==
    LET name == getName(node.callee)
    IN  [start |-> StartOf(node),
         end   |-> node.end,
         name  |-> getNodeAsString(node.arguments[1], code),
         type  |-> TypeOf(name),
         mode  |-> DeclaredMode(node.callee, name),
         task  |-> NullTask]

\* ------------------------------------------------------------------ sort
\* Array.prototype.sort((a, b) => a.start - b.start): stable.
RECURSIVE InsertByStart(_, _)
InsertByStart(s, d) ==
    IF s = <<>> THEN <<d>>
    ELSE IF s[Len(s)].start <= d.start THEN Append(s, d)
    ELSE Append(InsertByStart(SubSeq(s, 1, Len(s) - 1), d), s[Len(s)])

RECURSIVE SortByStart(_)
SortUnsortedMutant(s) == s
SortByStart(s) ==
    IF s = <<>> THEN <<>>
    ELSE InsertByStart(SortByStart(SubSeq(s, 1, Len(s) - 1)), s[Len(s)])

\* ---------------------------------------------------------- tree builder
RECURSIVE updateLatestSuite(_, _, _)
updateNeverAscendsMutant(h, suite, index) == suite
updateAboveFileMutant(h, suite, index) ==
    IF h[suite].end < index THEN h[suite].suite ELSE suite
updateAscendsOnceMutant(h, suite, index) ==
    IF h[suite].suite # NoSuite /\ h[suite].end < index THEN h[suite].suite ELSE suite
updateLatestSuite(h, suite, index) ==
    IF h[suite].suite # NoSuite /\ h[suite].end < index
    THEN updateLatestSuite(h, h[suite].suite, index)
    ELSE suite

\* the mode of the new task: the suite's when that is not run
OwnModeMutant(suiteMode, declared) == declared
ResolveMode(suiteMode, declared) ==
    IF suiteMode # "run" THEN suiteMode ELSE declared

TaskStartIsEndMutant(definition, latestSuite, mode) ==
    IF definition.type = "suite"
    THEN [type |-> "suite", suite |-> latestSuite, tasks |-> <<>>, mode |-> mode,
          name |-> definition.name, end |-> definition.end, start |-> definition.end]
    ELSE [type |-> "test", suite |-> latestSuite, mode |-> mode,
          name |-> definition.name, end |-> definition.end, start |-> definition.end]
TaskOf(definition, latestSuite, mode) ==
    IF definition.type = "suite"
    THEN [type |-> "suite", suite |-> latestSuite, tasks |-> <<>>, mode |-> mode,
          name |-> definition.name, end |-> definition.end, start |-> definition.start]
    ELSE [type |-> "test", suite |-> latestSuite, mode |-> mode,
          name |-> definition.name, end |-> definition.end, start |-> definition.start]

\* ----------------------------------------------------- the parser's output
\* A program is a forest of calls.  A call is
\*   [callee, inner, hasArg, args]: inner is <<>> or <<c>>, the call c that
\* is this call's callee (a chained call); args are the calls nested in the
\* arguments after the first one.  Offsets count one unit for a callee that
\* is not a call, "(", the first argument, "," or ";" before a nested or a
\* following call, and ")".
RECURSIVE LayTree(_, _), LayForest(_, _)
LayTree(t, s) ==
    LET inner     == IF t.inner = <<>> THEN [nodes |-> <<>>, end |-> s + 1]
                     ELSE LayTree(t.inner[1], s)
        calleeEnd == inner.end
        callee    == IF t.inner = <<>> THEN t.callee
                     ELSE CallOf(inner.nodes[Len(inner.nodes)].callee)
        argStart  == calleeEnd + 1
        message   == IF t.hasArg
                     THEN <<[type |-> "Literal", value |-> "t" \o ToString(argStart),
                             start |-> argStart, end |-> argStart + 1]>>
                     ELSE <<>>
        kids      == LayForest(t.args, IF t.hasArg THEN argStart + 1 ELSE argStart)
        node      == [type |-> "CallExpression", start |-> s, end |-> kids.end + 1,
                      callee |-> ("end" :> calleeEnd) @@ callee,
                      arguments |-> message]
    IN  [nodes |-> inner.nodes \o kids.nodes \o <<node>>, end |-> kids.end + 1]
LayForest(f, s) ==
    IF f = <<>> THEN [nodes |-> <<>>, end |-> s]
    ELSE LET h == LayTree(f[1], s + 1)
             r == LayForest(Tail(f), h.end)
         IN  [nodes |-> h.nodes \o r.nodes, end |-> r.end]

\* parseAstAsync(code) for a program with pad units of text before the first
\* and after the last statement; the calls are listed in the order in which
\* the walker calls the visitor (callee, then arguments, then the call).
ParseAst(program, pad) ==
    LET r == LayForest(program, pad - 1)
    IN  [start |-> 0,
         end   |-> (IF program = <<>> THEN 0 ELSE r.end) + pad,
         calls |-> r.nodes]

\* A call without nested calls, and a call chained on such a call.
Leaf(c, hasArg) == [callee |-> c, inner |-> <<>>, hasArg |-> hasArg, args |-> <<>>]
Chained(c, hasArg, f) ==
    [callee |-> FunctionExpr, inner |-> <<Leaf(c, TRUE)>>, hasArg |-> hasArg, args |-> f]

\* The programs with exactly n call expressions: the callee of a call is in
\* C, or is a call without nested calls whose own callee is in CI; every call
\* has a first argument.
RECURSIVE Trees(_, _, _), Forests(_, _, _)
Trees(n, C, CI) ==
    IF n = 0 THEN {}
    ELSE { [callee |-> c, inner |-> <<>>, hasArg |-> TRUE, args |-> f] :
             c \in C, f \in Forests(n - 1, C, CI) }
         \cup
         (IF n < 2 THEN {}
          ELSE { Chained(c, TRUE, f) : c \in CI, f \in Forests(n - 2, C, CI) })
Forests(n, C, CI) ==
    IF n = 0 THEN {<<>>}
    ELSE UNION { { <<t>> \o f : t \in Trees(k, C, CI), f \in Forests(n - k, C, CI) } :
                 k \in 1..n }

\* Callees of the nesting family: namespace-qualified declarations.
NestingCallees ==
    { Member(Member(Ident(Ns), "test"), "only"),
      Tagged(Member(Member(Ident(Ns), "test"), "each")),
      Member(Ident(Ns), "describe"),
      Member(Member(Ident(Ns), "describe"), "skip"),
      Member(Member(Ident(Ns), "describe"), "only"),
      Member(Member(Ident(Ns), "describe"), "todo") }
NestingChainCallees ==
    { Member(Member(Ident(Ns), "describe"), "each"),
      Member(Ident(Ns), "describe") }

\* The nesting family: nested and chained namespace-qualified declarations,
\* the first of them at offset 0 and the last one ending the file.
NestingPrograms ==
    UNION { Forests(n, NestingCallees, NestingChainCallees) : n \in 0..MaxCalls }

\* Statements of the callee-shape family: the keywords bare, as a member of
\* the namespace object, with a property, called without arguments, and
\* chained on a modifier call.
Modifiers == {"each", "skipIf", "runIf", "for"}
ShapeStatements ==
    { Leaf(Ident(k), TRUE) : k \in Keywords \cup {"foo"} }
    \cup { Leaf(Member(Ident(Ns), k), TRUE) : k \in {"test", "describe"} }
    \cup { Leaf(Member(Ident(k), p), TRUE) :
             k \in {"test", "describe"}, p \in {"skip", "only"} }
    \cup { Leaf(Member(Member(Ident(Ns), "test"), p), TRUE) :
             p \in {"skip", "todo", "concurrent"} \cup Modifiers }
    \cup { Leaf(Member(Member(Ident(Ns), "describe"), p), TRUE) : p \in {"only", "each"} }
    \cup { Leaf(Tagged(Member(Member(Ident(Ns), "test"), "each")), TRUE),
           Leaf(FunctionExpr, TRUE),
           Leaf(Ident("test"), FALSE),
           Leaf(Member(Member(Ident(Ns), "describe"), "skip"), FALSE) }
    \cup { Chained(Member(Member(Ident(Ns), "test"), p), TRUE, <<>>) : p \in Modifiers }
    \cup { Chained(Member(Member(Ident(Ns), "describe"), "each"), TRUE, <<>>),
           Chained(Member(Ident("test"), "each"), TRUE, <<>>) }

\* The callee-shape family: sequences of top-level statements.
ShapePrograms ==
    UNION { [1..n -> ShapeStatements] : n \in 0..MaxStatements }

\* The code of a request: a program, the text around it, and whether it has
\* __vite_ssr_identity__(x.y) wrappers around its callees.
Code(program, pad, wrapped) == [program |-> program, pad |-> pad, wrapped |-> wrapped]

\* request.code.replace(/__vite_ssr_identity__\((\w+\.\w+)\)/g, '(   ...   $1)'):
\* every wrapper becomes a parenthesis and blanks of the same length, and the
\* result has no wrapper left.
ReplaceGrowsMutant(code) == [code EXCEPT !.wrapped = FALSE, !.pad = @ + 1]
Replace(code) == [code EXCEPT !.wrapped = FALSE]

\* The calls of a program whose callees x.y are wrapped: the callee of such a
\* call is the call __vite_ssr_identity__(x.y), which the walker visits first.
IdentityCall == "__vite_ssr_identity__"
IsWrappable(callee) ==
    callee.type = "MemberExpression" /\ callee.object.type = "Identifier"
RECURSIVE WrapCalls(_)
WrapCalls(calls) ==
    IF calls = <<>> THEN <<>>
    ELSE LET n == calls[1]
         IN  IF IsWrappable(n.callee)
             THEN <<[type |-> "CallExpression", start |-> n.start, end |-> n.callee.end,
                     callee |-> ("end" :> n.callee.end) @@ Ident(IdentityCall),
                     arguments |-> <<[type |-> "MemberExpression",
                                      start |-> n.start, end |-> n.callee.end]>>],
                    [n EXCEPT !.callee = ("end" :> n.callee.end) @@ CallOf(Ident(IdentityCall))]>>
                  \o WrapCalls(Tail(calls))
             ELSE <<n>> \o WrapCalls(Tail(calls))

\* parseAstAsync(request.code)
Parse(code) ==
    LET a == ParseAst(code.program, code.pad)
    IN  IF code.wrapped THEN [a EXCEPT !.calls = WrapCalls(@)] ELSE a

\* The sibling family: two suites one after the other and then a test, all
\* in a suite or all at the top of the file.
SiblingStatements ==
    { <<Leaf(a, TRUE), Leaf(Member(Ident(Ns), "describe"), TRUE),
        Leaf(Member(Member(Ident(Ns), "test"), "only"), TRUE)>> :
        a \in { Member(Ident(Ns), "describe"),
                Member(Member(Ident(Ns), "describe"), "skip") } }
SiblingPrograms ==
    { <<[callee |-> Member(Ident(Ns), "describe"), inner |-> <<>>,
         hasArg |-> TRUE, args |-> f]>> : f \in SiblingStatements }
    \cup SiblingStatements

Inputs ==
    { Code(p, 0, FALSE) : p \in NestingPrograms }
    \cup
    { Code(p, 1, FALSE) : p \in ShapePrograms }
    \cup
    { Code(p, 0, FALSE) : p \in SiblingPrograms }

\* ------------------------------------------------------------------ state
FileTask(a) ==
    [type |-> "suite", suite |-> NoSuite, tasks |-> <<>>, mode |-> "run",
     name |-> "file", start |-> a.start, end |-> a.end]

\* the files that are collected
MainFile == "a.test-d.ts"
OtherFile == "b.test-d.ts"

\* values of the variables a specification does not use
NullRequest == 0
NoAst == [start |-> 0, end |-> 0, calls |-> <<>>, parsed |-> FALSE]
NoFinal == [stage |-> "none"]
NoOther == [pc |-> "none"]
NoTemplate == [node |-> [type |-> "none"]]
NoHashed == <<>>

\* The state in which the walk starts: the transform has given a request,
\* its code is parsed and the file task is made.
Init ==
    /\ \E code \in Inputs :
          /\ objects = [files |-> (MainFile :> code),
                        requests |-> <<[filepath |-> MainFile, code |-> code]>>]
          /\ ast = Parse(code)
    /\ request = 1
    /\ call = [id |-> 1, filepath |-> MainFile]
    /\ pc = "walk"
    /\ visited = 0
    /\ definitions = <<>>
    /\ heap = (FileId :> FileTask(ast))
    /\ lastSuite = FileId
    /\ built = 0
    /\ called = <<"transformRequest", "parseAstAsync", "generateHash">>
    /\ final = NoFinal
    /\ other = NoOther
    /\ template = NoTemplate
    /\ hashed = NoHashed

\* The CallExpression visitor on the next call expression of the walk.
CallExpression ==
    /\ pc = "walk"
    /\ visited < Len(ast.calls)
    /\ visited' = visited + 1
    /\ LET node == ast.calls[visited + 1]
           name == getName(node.callee)
       IN  IF name = Undefined \/ name \notin Keywords
              \/ IsModifierMode(DeclaredMode(node.callee, name))
              \/ NoMessageNode(node)
           THEN UNCHANGED <<pc, definitions>>
           ELSE IF node.arguments = <<>>
                THEN pc' = "threw" /\ UNCHANGED definitions
                ELSE /\ definitions' = Append(definitions,
                                             DefinitionOf(node, objects.requests[request].code))
                     /\ UNCHANGED pc
    /\ UNCHANGED <<ast, heap, lastSuite, built>>
    /\ UNCHANGED rest

\* definitions.sort(...), once the walk has returned.
Sort ==
    /\ pc = "walk"
    /\ visited = Len(ast.calls)
    /\ definitions' = SortByStart(definitions)
    /\ pc' = "build"
    /\ UNCHANGED <<ast, visited, heap, lastSuite, built>>
    /\ UNCHANGED rest

\* The forEach callback on the next definition.
ForEachDefinition ==
    /\ pc = "build"
    /\ built < Len(definitions)
    /\ LET definition  == definitions[built + 1]
           latestSuite == updateLatestSuite(heap, lastSuite, definition.start)
           mode        == ResolveMode(heap[latestSuite].mode, definition.mode)
           id          == built + 1
       IN  IF latestSuite = NoSuite
           THEN \* latestSuite.mode of undefined raises a TypeError
                /\ pc' = "threw"
                /\ UNCHANGED <<heap, definitions, lastSuite, built>>
           ELSE /\ heap' = (id :> TaskOf(definition, latestSuite, mode))
                           @@ [heap EXCEPT ![latestSuite].tasks = Append(@, id)]
                /\ definitions' = [definitions EXCEPT ![built + 1].task = id]
                /\ lastSuite' = IF definition.type = "suite" THEN id ELSE latestSuite
                /\ built' = built + 1
                /\ UNCHANGED pc
    /\ UNCHANGED <<ast, visited>>
    /\ UNCHANGED rest

\* The forEach has handled every definition.
ForEachDoneEarlyMutant ==
    /\ pc = "build"
    /\ pc' = "built"
    /\ UNCHANGED <<ast, visited, definitions, heap, lastSuite, built>>
    /\ UNCHANGED rest
ForEachDone ==
    /\ pc = "build"
    /\ built = Len(definitions)
    /\ pc' = "built"
    /\ UNCHANGED <<ast, visited, definitions, heap, lastSuite, built>>
    /\ UNCHANGED rest

Next ==
    \/ CallExpression
    \/ Sort
    \/ ForEachDefinition
    \/ ForEachDone

Spec == Init /\ [][Next]_vars

\* ------------------------------------------- the whole of collectTests
\* Largest number of call expressions in the file a collection is checked on.
MaxCollectCalls == 2

\* a transform that yields nothing
NullCode == [program |-> <<>>, pad |-> 0, wrapped |-> FALSE, null |-> TRUE]
IsNullNeverMutant(code) == FALSE
IsNull(code) == "null" \in DOMAIN code

\* The codes of the file a collection is checked on, with and without
\* wrappers, and the codes of the file the other collection may be on.
CollectCallees ==
    { Member(Ident(Ns), "test"),
      Member(Member(Ident(Ns), "describe"), "only") }
CollectCodes ==
    { Code(p, 0, w) :
        p \in UNION { Forests(n, CollectCallees, {}) : n \in 0..MaxCollectCalls },
        w \in BOOLEAN }
OtherCodes ==
    { Code(<<Leaf(Member(Ident(Ns), "test"), TRUE)>>, 1, TRUE),
      Code(<<Leaf(Ident("describe"), TRUE)>>, 0, FALSE) }

\* The external operations of the finalizer, on the tasks of a file.
\* calculateSuiteHash: the id of a task is the id of its suite and its place
\* in the suite.
PlaceIn(tasks, t) == CHOOSE i \in DOMAIN tasks : tasks[i] = t
RECURSIVE HashOf(_, _)
HashOf(h, t) ==
    IF t = FileId THEN <<>>
    ELSE Append(HashOf(h, h[t].suite), PlaceIn(h[h[t].suite].tasks, t))
calculateSuiteHash(h) == [t \in DOMAIN h |-> HashOf(h, t)]

\* someTasksAreOnly: a task of the file is marked only
someTasksAreOnly(h) == \E t \in DOMAIN h : h[t].mode = "only"

\* interpretTaskModes: when a task is marked only, the tasks marked only run
\* and the tasks of mode run that hold none of them are skipped.
RECURSIVE HoldsOnly(_, _)
HoldsOnly(h, t) ==
    /\ h[t].type = "suite"
    /\ \E i \in DOMAIN h[t].tasks :
          h[h[t].tasks[i]].mode = "only" \/ HoldsOnly(h, h[t].tasks[i])
interpretTaskModes(h, hasOnly) ==
    [t \in DOMAIN h |->
        IF ~hasOnly THEN h[t].mode
        ELSE IF h[t].mode = "only" THEN "run"
        ELSE IF h[t].mode = "run" /\ ~HoldsOnly(h, t) /\ t # FileId THEN "skip"
        ELSE h[t].mode]

\* the locals of a call that has not started
NotStarted(id, filepath) ==
    [pc |-> "start", call |-> [id |-> id, filepath |-> filepath], ast |-> NoAst,
     visited |-> 0, definitions |-> <<>>, heap |-> <<>>, lastSuite |-> NoSuite,
     built |-> 0, request |-> NullRequest, called |-> <<>>, final |-> NoFinal]

\* the locals of the running call, as a record
Running ==
    [pc |-> pc, call |-> call, ast |-> ast, visited |-> visited,
     definitions |-> definitions, heap |-> heap, lastSuite |-> lastSuite,
     built |-> built, request |-> request, called |-> called, final |-> final]

\* Two calls of collectTests, the second one on the same or on another file;
\* none has started.
CollectInit ==
    /\ \E code \in CollectCodes \cup {NullCode}, b \in OtherCodes \cup {NullCode} :
          objects = [files |-> (MainFile :> code) @@ (OtherFile :> b), requests |-> <<>>]
    /\ pc = "start"
    /\ call = [id |-> 1, filepath |-> MainFile]
    /\ ast = NoAst
    /\ visited = 0
    /\ definitions = <<>>
    /\ heap = <<>>
    /\ lastSuite = NoSuite
    /\ built = 0
    /\ request = NullRequest
    /\ called = <<>>
    /\ final = NoFinal
    /\ \E f \in {MainFile, OtherFile} : other = NotStarted(2, f)
    /\ template = NoTemplate
    /\ hashed = NoHashed

\* ctx.vitenode.transformRequest(filepath, filepath) is called.
CallTransformRequest ==
    /\ pc = "start"
    /\ pc' = "awaitTransform"
    /\ called' = Append(called, "transformRequest")
    /\ UNCHANGED <<ast, visited, definitions, heap, lastSuite, built>>
    /\ UNCHANGED <<request, objects, call, final, other, template, hashed>>

\* The transform has no result: return null.
TransformNull ==
    /\ pc = "awaitTransform"
    /\ IsNull(objects.files[call.filepath])
    /\ request' = NullRequest
    /\ pc' = "returnedNull"
    /\ final' = [stage |-> "returnedNull"]
    /\ UNCHANGED <<ast, visited, definitions, heap, lastSuite, built>>
    /\ UNCHANGED <<objects, call, called, other, template, hashed>>

\* The request objects the transform may answer a call with: one it has
\* handed out for the file before, or a new one.
Answers ==
    { i \in DOMAIN objects.requests : objects.requests[i].filepath = call.filepath }
    \cup {Len(objects.requests) + 1}

\* The transform has a result: its code is rewritten in place and the parser
\* is called on it.
TransformResolved ==
    /\ pc = "awaitTransform"
    /\ ~IsNull(objects.files[call.filepath])
    /\ \E r \in Answers :
          LET given == IF r \in DOMAIN objects.requests THEN objects.requests
                       ELSE Append(objects.requests,
                                   [filepath |-> call.filepath,
                                    code |-> objects.files[call.filepath]])
              code  == Replace(given[r].code)
          IN  /\ request' = r
              /\ objects' = [objects EXCEPT !.requests = [given EXCEPT ![r].code = code]]
              /\ ast' = Parse(code)
    /\ called' = Append(called, "parseAstAsync")
    /\ pc' = "awaitParse"
    /\ UNCHANGED <<visited, definitions, heap, lastSuite, built>>
    /\ UNCHANGED <<call, final, other, template, hashed>>

\* The parser has answered: the file task and the list of definitions are made.
ParseResolved ==
    /\ pc = "awaitParse"
    /\ called' = Append(called, "generateHash")
    /\ heap' = (FileId :> FileTask(ast))
    /\ definitions' = <<>>
    /\ visited' = 0
    /\ lastSuite' = FileId
    /\ built' = 0
    /\ pc' = "walk"
    /\ UNCHANGED <<ast, request, objects, call, final, other, template, hashed>>

\* calculateSuiteHash(file)
CalculateSuiteHash ==
    /\ pc = "built"
    /\ called' = Append(called, "calculateSuiteHash")
    /\ final' = [stage |-> "hashed", ids |-> calculateSuiteHash(heap)]
    /\ pc' = "hashed"
    /\ UNCHANGED <<ast, visited, definitions, heap, lastSuite, built>>
    /\ UNCHANGED <<request, objects, call, other, template, hashed>>

\* const hasOnly = someTasksAreOnly(file)
SomeTasksAreOnly ==
    /\ pc = "hashed"
    /\ called' = Append(called, "someTasksAreOnly")
    /\ final' = [stage |-> "hasOnly", ids |-> final.ids, hasOnly |-> someTasksAreOnly(heap)]
    /\ pc' = "hasOnly"
    /\ UNCHANGED <<ast, visited, definitions, heap, lastSuite, built>>
    /\ UNCHANGED <<request, objects, call, other, template, hashed>>

\* interpretTaskModes(file, testNamePattern, hasOnly, false, allowOnly)
InterpretTaskModes ==
    /\ pc = "hasOnly"
    /\ called' = Append(called, "interpretTaskModes")
    /\ final' = [stage |-> "interpreted", ids |-> final.ids, hasOnly |-> final.hasOnly,
                 modes |-> interpretTaskModes(heap, final.hasOnly)]
    /\ pc' = "interpreted"
    /\ UNCHANGED <<ast, visited, definitions, heap, lastSuite, built>>
    /\ UNCHANGED <<request, objects, call, other, template, hashed>>

\* return { file, parsed: request.code, filepath, map, definitions }
Return ==
    /\ pc = "interpreted"
    /\ final' = [stage |-> "returned", ids |-> final.ids, hasOnly |-> final.hasOnly,
                 modes |-> final.modes, parsed |-> objects.requests[request].code]
    /\ pc' = "returned"
    /\ UNCHANGED <<ast, visited, definitions, heap, lastSuite, built>>
    /\ UNCHANGED <<request, objects, call, called, other, template, hashed>>

\* The running call is suspended on an await, or has returned, and the other
\* call runs on.
Suspended == pc \in {"awaitTransform", "awaitParse", "returned", "returnedNull"}
Switch ==
    /\ Suspended
    /\ other.pc \notin {"returned", "returnedNull"}
    /\ other' = Running
    /\ pc' = other.pc
    /\ call' = other.call
    /\ ast' = other.ast
    /\ visited' = other.visited
    /\ definitions' = other.definitions
    /\ heap' = other.heap
    /\ lastSuite' = other.lastSuite
    /\ built' = other.built
    /\ request' = other.request
    /\ called' = other.called
    /\ final' = other.final
    /\ UNCHANGED <<objects, template, hashed>>

CollectNext ==
    \/ CallTransformRequest
    \/ TransformNull
    \/ TransformResolved
    \/ ParseResolved
    \/ CallExpression
    \/ Sort
    \/ ForEachDefinition
    \/ ForEachDone
    \/ CalculateSuiteHash
    \/ SomeTasksAreOnly
    \/ InterpretTaskModes
    \/ Return
    \/ Switch

CollectSpec == CollectInit /\ [][CollectNext]_vars

\* ------------------------------------------------- template-literal names
\* Largest number of interpolated expressions in a name argument, those of
\* the template literals nested in it included.
MaxExpressions == 2

\* Expressions that are not template literals, with their source text:
\* 'b', 1.0, x and 1+1.
LeafExpressions ==
    { [type |-> "Literal", text |-> <<"'", "b", "'">>, value |-> <<"b">>],
      [type |-> "Literal", text |-> <<"1", ".", "0">>, value |-> <<"1">>],
      [type |-> "Identifier", text |-> <<"x">>],
      [type |-> "BinaryExpression", text |-> <<"1", "+", "1">>] }
\* The quasis of a template literal with m expressions: each is empty or one
\* character, a for the first and b for the others.
QuasisOf(m) ==
    { [i \in 1..(m + 1) |-> IF ~present[i] THEN <<>>
                            ELSE IF i = 1 THEN <<"a">> ELSE <<"b">>] :
      present \in [1..(m + 1) -> BOOLEAN] }

\* The template literals with exactly n interpolated expressions in all; a
\* nested template literal counts as one expression plus its own.
RECURSIVE TemplatesOf(_), ExpressionsOf(_), ExpressionLists(_)
TemplatesOf(n) ==
    UNION { { [type |-> "TemplateLiteral", quasis |-> q, expressions |-> l] :
                q \in QuasisOf(Len(l)) } :
            l \in ExpressionLists(n) }
ExpressionsOf(k) ==
    (IF k = 1 THEN LeafExpressions ELSE {}) \cup TemplatesOf(k - 1)
ExpressionLists(n) ==
    IF n = 0 THEN {<<>>}
    ELSE UNION { { <<e>> \o l : e \in ExpressionsOf(k), l \in ExpressionLists(n - k) } :
                 k \in 1..n }

\* The parser on a template literal that starts at offset s: the source text
\* and the node, with the offsets of the node, its quasis and its expressions.
RECURSIVE ParseExpression(_, _), ParseQuasis(_, _, _)
ParseExpression(e, s) ==
    IF e.type = "TemplateLiteral"
    THEN LET r == ParseQuasis(e, 1, s + 1)
         IN  [text |-> <<Backtick>> \o r.text \o <<Backtick>>,
              node |-> [type |-> "TemplateLiteral", start |-> s,
                        end |-> s + Len(r.text) + 2,
                        quasis |-> r.quasis, expressions |-> r.expressions]]
    ELSE LET span == [start |-> s, end |-> s + Len(e.text)]
         IN  [text |-> e.text,
              node |-> IF e.type = "Literal"
                       THEN [type |-> "Literal", value |-> e.value, raw |-> e.text] @@ span
                       ELSE IF e.type = "Identifier"
                       THEN [type |-> "Identifier", name |-> e.text] @@ span
                       ELSE [type |-> e.type] @@ span]
ParseQuasis(t, i, s) ==
    LET q     == t.quasis[i]
        quasi == [type |-> "TemplateElement", value |-> [raw |-> q],
                  start |-> s, end |-> s + Len(q)]
    IN  IF i > Len(t.expressions)
        THEN [text |-> q, quasis |-> <<quasi>>, expressions |-> <<>>]
        ELSE LET e == ParseExpression(t.expressions[i], s + Len(q) + 2)
                 r == ParseQuasis(t, i + 1, s + Len(q) + 2 + Len(e.text) + 1)
             IN  [text |-> q \o <<"$", "{">> \o e.text \o <<"}">> \o r.text,
                  quasis |-> <<quasi>> \o r.quasis,
                  expressions |-> <<e.node>> \o r.expressions]

\* The name arguments: the template literals parsed from it(`...`, fn), where
\* the argument starts at offset 3.
NameArguments ==
    { LET r == ParseExpression(t, 3)
      IN  [node |-> r.node, code |-> <<"i", "t", "(">> \o r.text \o <<",", "f", ")">>,
           resolved |-> FALSE, name |-> <<>>] :
      t \in UNION { TemplatesOf(n) : n \in 0..MaxExpressions } }

NameInit ==
    /\ template \in NameArguments
    /\ pc = "resolve"
    /\ ast = NoAst
    /\ visited = 0
    /\ definitions = <<>>
    /\ heap = <<>>
    /\ lastSuite = NoSuite
    /\ built = 0
    /\ request = NullRequest
    /\ objects = [files |-> <<>>, requests |-> <<>>]
    /\ call = [id |-> 1, filepath |-> MainFile]
    /\ called = <<>>
    /\ final = NoFinal
    /\ other = NoOther
    /\ hashed = NoHashed

\* const message = getNodeAsString(messageNode, request.code)
ResolveName ==
    /\ pc = "resolve"
    /\ template' = [template EXCEPT
                      !.name = getNodeAsString(template.node, template.code),
                      !.resolved = TRUE]
    /\ pc' = "resolved"
    /\ UNCHANGED <<ast, visited, definitions, heap, lastSuite, built>>
    /\ UNCHANGED <<request, objects, call, called, final, other, hashed>>

NameNext == ResolveName

NameSpec == NameInit /\ [][NameNext]_vars

\* ------------------------------------------- the tree builder on any list
\* Largest number of definitions in a list, and largest offset in it.
MaxListed == 2
MaxOffset == 1

\* Lists of definitions whose ranges need not be nested in one another, in
\* any order.
ListedDefinitions ==
    { [start |-> s, end |-> e, name |-> "t", type |-> ty, mode |-> "run", task |-> NullTask] :
        s \in 0..MaxOffset, e \in 0..MaxOffset, ty \in {"suite", "test"} }
Lists == UNION { [1..n -> { d \in ListedDefinitions : d.start <= d.end }] : n \in 0..MaxListed }

\* The walk has not returned.
ListsInit ==
    /\ pc = "walking"
    /\ ast = NoAst
    /\ definitions = <<>>
    /\ visited = 0
    /\ heap = (FileId :> FileTask(ast))
    /\ lastSuite = FileId
    /\ built = 0
    /\ request = NullRequest
    /\ objects = [files |-> <<>>, requests |-> <<>>]
    /\ call = [id |-> 1, filepath |-> MainFile]
    /\ called = <<>>
    /\ final = NoFinal
    /\ other = NoOther
    /\ template = NoTemplate
    /\ hashed = NoHashed

\* The walk returns with a list of definitions, in a file that ends at
\* offset 0 or at the largest offset.
WalkReturns ==
    /\ pc = "walking"
    /\ definitions' \in Lists
    /\ \E e \in {0, MaxOffset} :
          /\ ast' = [start |-> 0, end |-> e, calls |-> <<>>]
          /\ heap' = (FileId :> FileTask(ast'))
    /\ pc' = "walk"
    /\ UNCHANGED <<visited, lastSuite, built>>
    /\ UNCHANGED rest

ListsNext ==
    \/ WalkReturns
    \/ Sort
    \/ ForEachDefinition
    \/ ForEachDone

\* The sort and the forEach run to completion: no step of them waits.
ListsSpec == ListsInit /\ [][ListsNext]_vars /\ WF_vars(ListsNext)

\* ------------------------------------------------------- the file's id
\* Largest length of a project name.
MaxNameLen == 2

\* Project names, the empty one included, and relative paths of test files.
RECURSIVE NamesOf(_)
NamesOf(n) ==
    IF n = 0 THEN {<<>>}
    ELSE { Append(s, c) : s \in NamesOf(n - 1), c \in {"x", "y"} }
ProjectNames == UNION { NamesOf(n) : n \in 0..MaxNameLen }
TestFilepaths == { <<"a", ".", "t", "s">>, <<"a", ".", "t", "s", "x">> }

\* projectName ? `${projectName}:__typecheck__` : '__typecheck__'
typecheckSubprojectName(projectName) ==
    IF projectName # <<>> THEN projectName \o <<":", "__typecheck__">>
    ELSE <<"__typecheck__">>

\* the argument of generateHash: `${testFilepath}${typecheckSubprojectName}`
HashInput(testFilepath, projectName) ==
    testFilepath \o typecheckSubprojectName(projectName)

\* No collection has made its file task.
HashInit ==
    /\ hashed = NoHashed
    /\ pc = "hash"
    /\ ast = NoAst
    /\ visited = 0
    /\ definitions = <<>>
    /\ heap = <<>>
    /\ lastSuite = NoSuite
    /\ built = 0
    /\ request = NullRequest
    /\ objects = [files |-> <<>>, requests |-> <<>>]
    /\ call = [id |-> 1, filepath |-> MainFile]
    /\ called = <<>>
    /\ final = NoFinal
    /\ other = NoOther
    /\ template = NoTemplate

\* One of two collections makes its file task: generateHash is called for
\* the id of the file.
GenerateHash ==
    /\ Len(hashed) < 2
    /\ \E testFilepath \in TestFilepaths, projectName \in ProjectNames :
          hashed' = Append(hashed, [testFilepath |-> testFilepath,
                                    projectName |-> projectName,
                                    string |-> HashInput(testFilepath, projectName)])
    /\ UNCHANGED <<ast, pc, visited, definitions, heap, lastSuite, built>>
    /\ UNCHANGED <<request, objects, call, called, final, other, template>>

HashNext == GenerateHash

HashSpec == HashInit /\ [][HashNext]_vars

\* ------------------------------------------------ vocabulary of the claims
Tasks == DOMAIN heap \ {FileId}
Suites == { s \in DOMAIN heap : heap[s].type = "suite" }
ParentOf(t) == heap[t].suite

RECURSIVE IsAncestor(_, _)
IsAncestor(a, t) ==
    /\ heap[t].suite # NoSuite
    /\ (heap[t].suite = a \/ IsAncestor(a, heap[t].suite))

\* the definition a task was made from, and the call expression it came from
DefinitionOfTask(t) == CHOOSE d \in { definitions[i] : i \in DOMAIN definitions } : d.task = t
Calls == { ast.calls[i] : i \in DOMAIN ast.calls }
CallOfTask(t) == CHOOSE n \in Calls : n.end = heap[t].end

\* an expression without the offset the parser put on it
Strip(e) == [f \in DOMAIN e \ {"end"} |-> e[f]]

\* the tree builder has handled every definition, the finalizer has not run
BeforeFinalizer == pc = "built"

\* ---------------------------------------------------------------- C1
\* C1: every descendant of a suite whose resolved mode is skip or todo has
\* that same resolved mode, whatever it declared; so once the builder is
\* done, a test declared only in a suite declared skip that is itself in a
\* suite of mode run has mode skip.
C1_SkipTodoForced ==
    /\ \A s \in Suites : \A t \in Tasks :
          heap[s].mode \in {"skip", "todo"} /\ IsAncestor(s, t)
              => heap[t].mode = heap[s].mode
    /\ BeforeFinalizer =>
          \A t \in Tasks :
              LET p == ParentOf(t)
              IN  /\ heap[t].type = "test"
                  /\ DefinitionOfTask(t).mode = "only"
                  /\ p # FileId
                  /\ DefinitionOfTask(p).mode = "skip"
                  /\ heap[ParentOf(p)].mode = "run"
                  => heap[t].mode = "skip"

C1_Witness ==
    /\ BeforeFinalizer
    /\ \E t \in Tasks :
          /\ heap[t].type = "test"
          /\ DefinitionOfTask(t).mode = "only"
          /\ heap[t].mode = "skip"
          /\ ParentOf(t) # FileId
          /\ DefinitionOfTask(ParentOf(t)).mode = "skip"

\* ---------------------------------------------------------------- C2
\* C2: before the finalizer runs, a task declared run, skip or todo all of
\* whose enclosing suites have mode run or only has the mode it declared.
C2_OnlyDoesNotForce ==
    BeforeFinalizer =>
        \A t \in Tasks :
            /\ DefinitionOfTask(t).mode \in {"run", "skip", "todo"}
            /\ \A s \in Suites : IsAncestor(s, t) => heap[s].mode \in {"run", "only"}
            => heap[t].mode = DefinitionOfTask(t).mode

ChainedOnSuite(t) ==
    /\ CallOfTask(t).callee.type = "CallExpression"
    /\ \E s \in Suites \ {FileId} : heap[s].end = CallOfTask(t).callee.end

Overlap(a, b) == a.start < b.end /\ b.start < a.end
C4_SiblingsDisjoint ==
    \A s \in Suites : \A i, j \in DOMAIN heap[s].tasks :
        i # j => ~Overlap(heap[heap[s].tasks[i]], heap[heap[s].tasks[j]])

\* ---------------------------------------------------------------- C5
\* C5: every task is in the tasks list of exactly one suite, at one place,
\* that suite is the one its suite field names, and every tasks list is in
\* non-decreasing order of start offset.
Places(t) == { <<s, i>> \in Suites \X (1..Cardinality(DOMAIN heap)) :
                  i \in DOMAIN heap[s].tasks /\ heap[s].tasks[i] = t }
C5_OneParentInOrder ==
    /\ \A t \in Tasks :
          /\ Cardinality(Places(t)) = 1
          /\ \A pl \in Places(t) : pl[1] = ParentOf(t)
    /\ \A s \in Suites : \A i, j \in DOMAIN heap[s].tasks :
          i < j => heap[heap[s].tasks[i]].start <= heap[heap[s].tasks[j]].start

C5_Witness ==
    /\ BeforeFinalizer
    /\ \E s \in Suites \ {FileId} : Len(heap[s].tasks) >= 2
    /\ Len(heap[FileId].tasks) >= 1

\* ---------------------------------------------------------------- C6
\* C6: when the builder is done there are as many tasks as definitions and
\* as recorded call expressions, and the task field of every definition
\* names a task of its own with the definition's type, name, start and end.
C6_EveryDefinitionMaterialized ==
    BeforeFinalizer =>
        /\ Cardinality(Tasks) = Len(definitions)
        /\ Len(definitions) = Cardinality({ i \in DOMAIN ast.calls : Classified(ast.calls[i]) })
        /\ \A i \in DOMAIN definitions :
              /\ definitions[i].task \in Tasks
              /\ heap[definitions[i].task].type = definitions[i].type
              /\ heap[definitions[i].task].name = definitions[i].name
              /\ heap[definitions[i].task].start = definitions[i].start
              /\ heap[definitions[i].task].end = definitions[i].end
        /\ \A i, j \in DOMAIN definitions :
              i # j => definitions[i].task # definitions[j].task

\* a task that starts after the end of the suite made last before it
C6_Witness ==
    /\ BeforeFinalizer
    /\ \E t \in Tasks : \E s \in Suites \ {FileId} :
          /\ s < t
          /\ \A u \in Suites : ~(s < u /\ u < t)
          /\ heap[s].end < heap[t].start
          /\ ParentOf(t) # s
    /\ \E t \in Tasks : ChainedOnSuite(t) /\ heap[t].end > heap[ParentOf(t)].end

\* ---------------------------------------------------------------- C7
\* the four shapes, written with the bare keyword or with the keyword as a
\* member of the namespace object
IsPlainTest(c) == Strip(c) \in {Ident("test"), Member(Ident(Ns), "test")}
IsTestSkip(c) ==
    Strip(c) \in {Member(Ident("test"), "skip"), Member(Member(Ident(Ns), "test"), "skip")}
IsDescribeOnly(c) ==
    Strip(c) \in {Member(Ident("describe"), "only"), Member(Member(Ident(Ns), "describe"), "only")}
IsTestEachChain(c) ==
    /\ c.type = "CallExpression"
    /\ Strip(c.callee) \in {Member(Ident("test"), "each"), Member(Member(Ident(Ns), "test"), "each")}

DefinitionsOfCall(n) == { i \in DOMAIN definitions : definitions[i].end = n.end }
OneDefinition(n, type, mode) ==
    /\ Cardinality(DefinitionsOfCall(n)) = 1
    /\ \A i \in DefinitionsOfCall(n) :
          definitions[i].type = type /\ definitions[i].mode = mode

\* C7: test(name, fn), test.skip(name, fn), describe.only(name, fn) and the
\* chained test.each([...])(name, fn) each give exactly one definition, of
\* (type, mode) (test, run), (test, skip), (suite, only) and (test, run).
C7_ShapesClassified ==
    pc # "walk" =>
        \A n \in Calls :
            n.arguments # <<>> =>
                /\ IsPlainTest(n.callee) => OneDefinition(n, "test", "run")
                /\ IsTestSkip(n.callee) => OneDefinition(n, "test", "skip")
                /\ IsDescribeOnly(n.callee) => OneDefinition(n, "suite", "only")
                /\ IsTestEachChain(n.callee) => OneDefinition(n, "test", "run")

\* ---------------------------------------------------------------- C8
IsModifierAccess(c) ==
    /\ c.type = "MemberExpression"
    /\ c.property.name \in Modifiers
    /\ \/ Strip(c.object) \in { Ident(k) : k \in Keywords }
       \/ Strip(c.object) \in { Member(Ident(Ns), k) : k \in Keywords }

\* C8: a call whose callee accesses each, skipIf, runIf or for on a keyword
\* gives no definition, and a declaration chained on such a call gives one
\* task, made from the outer call.
C8_ModifierCallsNotRecorded ==
    /\ \A n \in Calls : IsModifierAccess(n.callee) => DefinitionsOfCall(n) = {}
    /\ BeforeFinalizer =>
          \A n \in Calls :
              n.callee.type = "CallExpression" /\ IsModifierAccess(n.callee.callee)
              /\ n.arguments # <<>>
                  => /\ Cardinality({ t \in Tasks : heap[t].end = n.end }) = 1
                     /\ { t \in Tasks : heap[t].end = n.callee.end } = {}

\* ---------------------------------------------------------------- C9
\* C9: the mode of every definition is run, skip, only or todo.
C9_ModeInRange ==
    \A i \in DOMAIN definitions : definitions[i].mode \in {"run", "skip", "only", "todo"}

\* ---------------------------------------------------------------- C10
\* a call that declares a test or a suite, whatever its arguments
IsDeclarationCall(n) ==
    /\ getName(n.callee) \in Keywords
    /\ ~IsModifierMode(DeclaredMode(n.callee, getName(n.callee)))

\* C10: a declaration call without a first argument raises nothing and gives
\* no definition and no task, and the declaration calls with a first
\* argument are all recorded and materialized.
C10_NamelessDropped ==
    /\ pc # "threw"
    /\ \A n \in Calls :
          n.arguments = <<>> =>
              /\ DefinitionsOfCall(n) = {}
              /\ \A t \in Tasks : heap[t].end # n.end
    /\ pc # "walk" =>
          { definitions[i].end : i \in DOMAIN definitions }
              = { n.end : n \in { m \in Calls : IsDeclarationCall(m) /\ m.arguments # <<>> } }
    /\ BeforeFinalizer =>
          { heap[t].end : t \in Tasks }
              = { n.end : n \in { m \in Calls : IsDeclarationCall(m) /\ m.arguments # <<>> } }

\* a nameless declaration call followed by a declaration that is collected
C10_Witness ==
    /\ BeforeFinalizer
    /\ \E i, j \in DOMAIN ast.calls :
          /\ i < j
          /\ IsDeclarationCall(ast.calls[i])
          /\ ast.calls[i].arguments = <<>>
          /\ \E t \in Tasks : heap[t].end = ast.calls[j].end

\* ---------------------------------------------------------------- C15
\* the suites made before task t whose range holds the start of t
SuitesHolding(t) ==
    { s \in Suites \ {FileId} :
        /\ s < t
        /\ heap[s].start <= heap[t].start
        /\ heap[t].start <= heap[s].end }

\* two suites with the same parent that end before t starts, in a suite
\* that holds the start of t
AfterTwoClosedSiblings(t, s) ==
    /\ s \in SuitesHolding(t)
    /\ \E a, b \in Suites \ {FileId} :
          /\ a < b /\ b < t
          /\ ParentOf(a) = s /\ ParentOf(b) = s
          /\ heap[a].end < heap[b].start
          /\ heap[b].end < heap[t].start

\* C15: every task is attached to the latest-starting suite made before it
\* whose range [start, end] holds the start of the task, and to the file
\* task when no such suite exists; a test that starts after two sibling
\* suites have ended, inside the suite they are in, is attached to that suite.
C15_InnermostEnclosing ==
    \A t \in Tasks :
        /\ IF SuitesHolding(t) = {}
           THEN ParentOf(t) = FileId
           ELSE /\ ParentOf(t) \in SuitesHolding(t)
                /\ \A s \in SuitesHolding(t) : heap[s].start <= heap[ParentOf(t)].start
        /\ \A s \in Suites :
              heap[t].type = "test" /\ AfterTwoClosedSiblings(t, s) => ParentOf(t) = s

C15_Witness ==
    /\ BeforeFinalizer
    /\ \E t \in Tasks : \E s \in Suites \ {FileId} :
          /\ heap[t].type = "test"
          /\ AfterTwoClosedSiblings(t, s)
          /\ ParentOf(t) = s
    /\ \E t \in Tasks : SuitesHolding(t) = {} /\ ParentOf(t) = FileId

\* ---------------------------------------------------------------- C17
\* the call expression a definition was recorded for
CallOfDefinition(d) == CHOOSE n \in Calls : n.end = d.end

\* C17: the start of a call site is the end of the callee when the callee is
\* a call, one past the end of the callee when it is a tagged template, and
\* the start of the call expression otherwise; its end is the end of the
\* call expression; so its start is never after its end.
C17_StartAndEnd ==
    \A i \in DOMAIN definitions :
        LET d == definitions[i]
            n == CallOfDefinition(d)
        IN  /\ \E m \in Calls : m.end = d.end
            /\ n.callee.type = "CallExpression" => d.start = n.callee.end
            /\ n.callee.type = "TaggedTemplateExpression" => d.start = n.callee.end + 1
            /\ n.callee.type \notin {"CallExpression", "TaggedTemplateExpression"}
                  => d.start = n.start
            /\ d.start <= d.end

C17_Witness ==
    /\ pc = "build"
    /\ \E i, j, k \in DOMAIN definitions :
          /\ CallOfDefinition(definitions[i]).callee.type = "CallExpression"
          /\ definitions[i].start > CallOfDefinition(definitions[i]).start
          /\ CallOfDefinition(definitions[j]).callee.type = "TaggedTemplateExpression"
          /\ CallOfDefinition(definitions[k]).callee.type = "MemberExpression"
          /\ definitions[k].start = CallOfDefinition(definitions[k]).start

\* ---------------------------------------------------------------- C11
Finalizers == <<"calculateSuiteHash", "someTasksAreOnly", "interpretTaskModes">>
IsFinalizer(c) == \E i \in DOMAIN Finalizers : Finalizers[i] = c
FinalizerCalls(log) == SelectSeq(log, IsFinalizer)

\* the finalizer calls so far are the first of the three, in order, made
\* after the forEach has given every definition its task
FinalizersInOrder ==
    LET f == FinalizerCalls(called)
    IN  /\ Len(f) <= Len(Finalizers)
        /\ f = SubSeq(Finalizers, 1, Len(f))
        /\ f # <<>> =>
              /\ pc \notin {"walk", "build"}
              /\ visited = Len(ast.calls)
              /\ built = Len(definitions)
              /\ \A i \in DOMAIN definitions : definitions[i].task \in DOMAIN heap
              /\ DOMAIN heap = 0..Len(definitions)
        /\ pc = "returned" => f = Finalizers
        /\ request # NullRequest /\ pc \in {"walk", "build", "built"} => f = <<>>

\* C11: a collection that has a transform result calls calculateSuiteHash,
\* someTasksAreOnly and interpretTaskModes once each, in this order, after
\* the last task is appended to the tree; once one of them has been called,
\* the collection adds no task and the tree builder sets no mode.
C11_FinalizersOnceInOrderAfterBuild ==
    /\ []FinalizersInOrder
    /\ [][call' = call /\ FinalizerCalls(called) # <<>>
            => /\ heap' = heap
               /\ definitions' = definitions
               /\ built' = built
               /\ lastSuite' = lastSuite]_vars

C11_Witness ==
    /\ pc = "returned"
    /\ FinalizerCalls(called) = Finalizers
    /\ Len(definitions) = MaxCollectCalls
    /\ \E t \in DOMAIN heap : final.modes[t] # heap[t].mode

\* ---------------------------------------------------------------- C12
\* C12: when the transform has no result for the file, collectTests returns
\* null: it has not called the parser or a finalizer operation and has made
\* no file task and no definition.
C12_NullTransformReturnsNull ==
    objects.files[call.filepath] = NullCode /\ pc \notin {"start", "awaitTransform"}
        => /\ pc = "returnedNull"
           /\ called = <<"transformRequest">>
           /\ ast = NoAst
           /\ heap = <<>>
           /\ definitions = <<>>
           /\ final = [stage |-> "returnedNull"]

C12_Witness ==
    /\ objects.files[call.filepath] = NullCode
    /\ pc = "returnedNull"
    /\ other.pc = "returned"
    /\ other.definitions # <<>>

\* ---------------------------------------------------------------- C13
\* the definitions the visitor records on a list of call expressions
RECURSIVE DefinitionsOfCalls(_, _)
DefinitionsOfCalls(calls, code) ==
    IF calls = <<>> THEN <<>>
    ELSE LET r == DefinitionsOfCalls(SubSeq(calls, 1, Len(calls) - 1), code)
             n == calls[Len(calls)]
         IN  IF Classified(n) THEN Append(r, DefinitionOf(n, code)) ELSE r

\* the tree, the definitions and the cursor after the first n sorted definitions
RECURSIVE TreeOf(_, _, _)
TreeOf(a, defs, n) ==
    IF n = 0 THEN [heap |-> (FileId :> FileTask(a)), definitions |-> defs, lastSuite |-> FileId]
    ELSE LET b           == TreeOf(a, defs, n - 1)
             definition  == defs[n]
             latestSuite == updateLatestSuite(b.heap, b.lastSuite, definition.start)
             mode        == ResolveMode(b.heap[latestSuite].mode, definition.mode)
         IN  [heap |-> (n :> TaskOf(definition, latestSuite, mode))
                       @@ [b.heap EXCEPT ![latestSuite].tasks = Append(@, n)],
              definitions |-> [b.definitions EXCEPT ![n].task = n],
              lastSuite |-> IF definition.type = "suite" THEN n ELSE latestSuite]

\* what a call of collectTests returns when no other call runs
Alone(code) ==
    LET parsed == Replace(code)
        a      == Parse(parsed)
        defs   == SortByStart(DefinitionsOfCalls(a.calls, parsed))
        tree   == TreeOf(a, defs, Len(defs))
        only   == someTasksAreOnly(tree.heap)
    IN  [file |-> tree.heap,
         definitions |-> tree.definitions,
         final |-> [stage |-> "returned", ids |-> calculateSuiteHash(tree.heap),
                    hasOnly |-> only, modes |-> interpretTaskModes(tree.heap, only),
                    parsed |-> parsed]]

Returned(frame) ==
    [file |-> frame.heap, definitions |-> frame.definitions, final |-> frame.final]

\* the running call has returned while the other call, on the same request
\* object, awaits the parser
Interleaved ==
    /\ pc = "returned" /\ other.pc = "awaitParse"
    /\ request = other.request

RECURSIVE InterleavedFrom(_, _, _)
InterleavedFrom(node, code, i) ==
    IF i > Len(node.quasis) THEN <<>>
    ELSE Slice(code, node.quasis[i].start, node.quasis[i].end)
         \o (IF i > Len(node.expressions) THEN <<>>
             ELSE LET e == node.expressions[i]
                  IN  <<"$", "{">>
                      \o (IF e.type = "TemplateLiteral"
                          THEN <<Backtick>> \o InterleavedFrom(e, code, 1) \o <<Backtick>>
                          ELSE Slice(code, e.start, e.end))
                      \o <<"}">>)
         \o InterleavedFrom(node, code, i + 1)

\* it(`a${1+1}b`, f)
ExampleCode ==
    <<"i", "t", "(", Backtick, "a", "$", "{", "1", "+", "1", "}", "b", Backtick, ",", "f", ")">>

\* C14: the name of a template-literal argument is its quasis with ${t}
\* between them, t being the source text of the interpolated expression, or
\* the name of the expression between backticks when the expression is a
\* template literal; nothing is evaluated: the name of `a${1+1}b` is a${1+1}b.
C14_TemplateName ==
    template.resolved =>
        /\ template.name = InterleavedFrom(template.node, template.code, 1)
        /\ template.code = ExampleCode
              => template.name = <<"a", "$", "{", "1", "+", "1", "}", "b">>

C14_Witness ==
    /\ template.resolved
    /\ template.code = ExampleCode
    /\ template.name = <<"a", "$", "{", "1", "+", "1", "}", "b">>

\* ---------------------------------------------------------------- C16
\* the cursor is on a task of the tree, and the suite of every task was made
\* before the task: an ascent from a task reaches the file task in at most
\* as many steps as tasks were made before it
AscentsEndAtFile ==
    /\ lastSuite \in DOMAIN heap
    /\ heap[lastSuite].type = "suite"
    /\ heap[FileId].suite = NoSuite
    /\ \A t \in DOMAIN heap \ {FileId} :
          /\ heap[t].suite \in DOMAIN heap
          /\ heap[t].suite < t

\* C16: on every list of definitions, properly nested or not, the tree
\* builder makes a task for every definition and ends without raising; the
\* cursor stays on a suite of the tree, so that an ascent ends at the file
\* task at the latest.
C16_BuilderTerminates ==
    /\ [](pc # "threw" /\ AscentsEndAtFile)
    /\ <>(pc = "built" /\ built = Len(definitions))

\* a task that starts after the end of the file, made when the cursor was on
\* a suite that had ended: the ascent stopped on the file task, whose range
\* does not hold the task
C16_Witness ==
    /\ pc = "built"
    /\ \E a \in Suites \ {FileId} : \E t \in Tasks :
          /\ ParentOf(a) = FileId
          /\ t = a + 1
          /\ heap[a].end < heap[t].start
          /\ heap[FileId].end < heap[t].start
          /\ ParentOf(t) = FileId

\* ---------------------------------------------------------------- C18
\* C18: two collections pass the same string to generateHash exactly when
\* they have the same relative path and the same project name.
C18_HashInputIdentifiesFile ==
    \A i, j \in DOMAIN hashed :
        (hashed[i].string = hashed[j].string)
            <=> (/\ hashed[i].testFilepath = hashed[j].testFilepath
                 /\ hashed[i].projectName = hashed[j].projectName)

====
